---------------------------- MODULE Spec2Model ----------------------------
(***************************************************************************)
(* Roll-call application: the absentee-hours endpoint (PHP), the           *)
(* StudentAbsenteeHours component and the Reports page (React).            *)
(*                                                                         *)
(* JavaScript values are modelled as follows.                              *)
(*   - A string is a sequence of pieces: one-character strings, or runs of  *)
(*     characters that hold no separator, kept as one piece.               *)
(*   - A value that may be null or undefined is a record                   *)
(*     [tag, chars] (Null, Undefined, Str(cs)).                            *)
(*   - A number is a record [nan, v]; hour quantities are counted in       *)
(*     units of 1/UnitsPerHour hour (minutes), which represents every      *)
(*     quotient diffInMs / (1000 * 60 * 60) of whole-minute times exactly. *)
(*   - Date parsing of the non-ISO form "2000-01-01 HH:MM" follows the     *)
(*     legacy parser of V8 (local time, NaN time value when invalid).      *)
(***************************************************************************)
EXTENDS Integers, Sequences, FiniteSets, TLC

VARIABLES
    \* calculateSessionDuration applied to one argument
    timeSlotArg, durationResult, durationPc,
    \* the risk level cell of one table row
    rowHours, rowStyle, rowLabel, rowPc,
    \* get_student_absentee_hours.php: the tables, one request and its response
    attendance, timetable, requestMethod, phpPc, queryIssued, stmtRows,
    absenteeData, exceptionMessage, responseStatus, responseBody,
    \* StudentAbsenteeHours: props, state, the cache entry, the calls in flight
    studentsProp, absenteeHours, hoursLoading, hoursError, hoursCache, hoursMounted,
    hoursPending, hoursRequests, hoursLast,
    \* Reports: state, the two cache entries, the calls in flight, the time zone
    \* of the browser
    absentees, filters, reportsLoading, reportsError, showFilters, localRecords,
    cachedReports, reportsMounted, reportsPending, reportsRequests, reportsLast,
    timezone,
    \* exportReport and getGroupedAbsentees applied to one absentees list
    exportAbsentees, exportTimezone, csvContent, exportPc, groupedAbsentees, groupsPc,
    \* the page the browser shows
    page

durationVars == <<timeSlotArg, durationResult, durationPc>>
riskVars == <<rowHours, rowStyle, rowLabel, rowPc>>
tableVars == <<attendance, timetable>>
phpVars == <<attendance, timetable, requestMethod, phpPc, queryIssued, stmtRows,
             absenteeData, exceptionMessage, responseStatus, responseBody>>
hoursVars == <<studentsProp, absenteeHours, hoursLoading, hoursError, hoursCache,
              hoursMounted, hoursPending, hoursRequests, hoursLast>>
reportsVars == <<absentees, filters, reportsLoading, reportsError, showFilters,
                localRecords, cachedReports, reportsMounted, reportsPending,
                reportsRequests, reportsLast, timezone>>
exportVars == <<exportAbsentees, exportTimezone, csvContent, exportPc,
               groupedAbsentees, groupsPc>>
vars == <<durationVars, riskVars, phpVars, hoursVars, reportsVars, exportVars, page>>

\* the variables of the other parts
exceptDuration == <<riskVars, phpVars, hoursVars, reportsVars, exportVars, page>>
exceptRisk == <<durationVars, phpVars, hoursVars, reportsVars, exportVars, page>>
exceptPhp == <<durationVars, riskVars, hoursVars, reportsVars, exportVars, page>>
exceptHours == <<durationVars, riskVars, phpVars, reportsVars, exportVars, page>>
exceptReports == <<durationVars, riskVars, phpVars, hoursVars, exportVars, page>>
exceptExport == <<durationVars, riskVars, phpVars, hoursVars, reportsVars, page>>

-----------------------------------------------------------------------------
(* JavaScript values *)

Null == [tag |-> "null", chars |-> <<>>]
Undefined == [tag |-> "undefined", chars |-> <<>>]
Str(cs) == [tag |-> "string", chars |-> cs]

\* !v is false exactly for a non-empty string (among null, undefined, strings)
Truthy(v) == v.tag = "string" /\ v.chars # <<>>

NaN == [nan |-> TRUE, v |-> 0]
Num(n) == [nan |-> FALSE, v |-> n]

NumSub(a, b) == IF a.nan \/ b.nan THEN NaN ELSE Num(a.v - b.v)
NumAdd(a, b) == IF a.nan \/ b.nan THEN NaN ELSE Num(a.v + b.v)
\* Math.max: NaN when either argument is NaN
MathMax(a, b) == IF a.nan \/ b.nan THEN NaN ELSE IF a.v >= b.v THEN a ELSE b
\* a >= k: false when a is NaN
NumGE(a, k) == ~a.nan /\ a.v >= k

\* the hour, in the unit of the model's hour quantities: 1000 * 60 * 60 ms
UnitsPerHour == 60

-----------------------------------------------------------------------------
(* Strings *)

DigitChars == <<"0", "1", "2", "3", "4", "5", "6", "7", "8", "9">>
IsDigit(c) == \E i \in 1..10 : DigitChars[i] = c
DigitVal(c) == (CHOOSE i \in 1..10 : DigitChars[i] = c) - 1

RECURSIVE DecimalVal(_)
DecimalVal(cs) ==
    IF cs = <<>> THEN 0
    ELSE 10 * DecimalVal(SubSeq(cs, 1, Len(cs) - 1)) + DigitVal(cs[Len(cs)])

AllDigits(cs) == cs # <<>> /\ \A i \in 1..Len(cs) : IsDigit(cs[i])

\* the separator of timeSlot.split(' - ')
SlotSeparator == <<" ", "-", " ">>

MatchesAt(s, sep, i) ==
    /\ i + Len(sep) - 1 <= Len(s)
    /\ \A k \in 1..Len(sep) : s[i + k - 1] = sep[k]

\* String.prototype.split with a non-empty separator: all the pieces
RECURSIVE Split(_, _)
Split(s, sep) ==
    IF \E i \in 1..Len(s) : MatchesAt(s, sep, i)
    THEN LET i == CHOOSE j \in 1..Len(s) :
                      /\ MatchesAt(s, sep, j)
                      /\ \A k \in 1..(j - 1) : ~MatchesAt(s, sep, k)
         IN <<SubSeq(s, 1, i - 1)>> \o Split(SubSeq(s, i + Len(sep), Len(s)), sep)
    ELSE <<s>>

\* array destructuring: a missing element is undefined
ElementAt(parts, i) == IF i <= Len(parts) THEN Str(parts[i]) ELSE Undefined

\* ${v} in a template literal
ToStringChars(v) ==
    IF v.tag = "string" THEN v.chars
    ELSE IF v.tag = "null" THEN <<"n", "u", "l", "l">>
    ELSE <<"u", "n", "d", "e", "f", "i", "n", "e", "d">>

DatePrefix == <<"2", "0", "0", "0", "-", "0", "1", "-", "0", "1", " ">>

\* `2000-01-01 ${v}`
DateTemplate(v) == DatePrefix \o ToStringChars(v)

\* new Date(text).getTime() for text = "2000-01-01 <time>", relative to local
\* midnight of 2000-01-01 and in model units (minutes): digits ":" digits with
\* hour <= 23 and minute <= 59, or 24:00; NaN (Invalid Date) otherwise.
DateGetTime(text) ==
    IF Len(text) < Len(DatePrefix) \/ SubSeq(text, 1, Len(DatePrefix)) # DatePrefix
    THEN NaN
    ELSE LET rest == SubSeq(text, Len(DatePrefix) + 1, Len(text))
             hm == Split(rest, <<":">>)
         IN IF Len(hm) = 2 /\ AllDigits(hm[1]) /\ AllDigits(hm[2])
            THEN LET h == DecimalVal(hm[1])
                     m == DecimalVal(hm[2])
                 IN IF (h <= 23 /\ m <= 59) \/ (h = 24 /\ m = 0)
                    THEN Num(h * UnitsPerHour + m)
                    ELSE NaN
            ELSE NaN

-----------------------------------------------------------------------------
(* calculateSessionDuration *)

\* Default 2 hours
DefaultDuration == Num(2 * UnitsPerHour)
\* Minimum 1 hour
MinimumDuration == Num(1 * UnitsPerHour)

\* DurationOfString without the clamp to the minimum
DurationOfStringUnclamped(timeSlot) ==
    LET parts == Split(timeSlot.chars, SlotSeparator)
    IN NumSub(DateGetTime(DateTemplate(ElementAt(parts, 2))),
              DateGetTime(DateTemplate(ElementAt(parts, 1))))

\* the body of the try block: no statement of it throws for a string argument
DurationOfString(timeSlot) ==
    LET parts == Split(timeSlot.chars, SlotSeparator)
        startTime == ElementAt(parts, 1)
        endTime == ElementAt(parts, 2)
        start == DateGetTime(DateTemplate(startTime))
        end == DateGetTime(DateTemplate(endTime))
        diffInHours == NumSub(end, start)
    IN MathMax(diffInHours, MinimumDuration)

\* calculateSessionDuration with a default of 1 hour
calculateSessionDurationDefaultOne(timeSlot) ==
    IF ~Truthy(timeSlot) THEN Num(1 * UnitsPerHour)
    ELSE DurationOfString(timeSlot)

calculateSessionDuration(timeSlot) ==
    IF ~Truthy(timeSlot) THEN DefaultDuration
    ELSE DurationOfString(timeSlot)

\* the call and its return
DurationIdle ==
    /\ timeSlotArg = Null
    /\ durationResult = Num(0)
    /\ durationPc = "idle"

\* hours and minutes the enumerated time-slot strings are written with
HourInputs == {0, 8, 9, 10, 23, 24, 25}
MinuteInputs == {0, 30, 59, 60}

Pad2(n) == <<DigitChars[(n \div 10) + 1], DigitChars[(n % 10) + 1]>>
TimeText(h, m) == Pad2(h) \o <<":">> \o Pad2(m)

WellFormedParts == {TimeText(h, m) : h \in HourInputs, m \in MinuteInputs}
GarbageParts == {<<"a", "b">>, <<"8", "h">>}
SlotParts == WellFormedParts \cup GarbageParts

TimeSlotInputs ==
    {Null, Undefined, Str(<<>>)}
        \cup {Str(p) : p \in SlotParts}
        \cup {Str(p \o SlotSeparator \o q) : p \in SlotParts, q \in SlotParts}
        \cup {Str(p \o <<"-">> \o q) : p \in WellFormedParts, q \in {TimeText(10, 0)}}
        \cup {Str(p \o SlotSeparator \o q \o SlotSeparator \o q) :
                  p \in {TimeText(8, 0)}, q \in WellFormedParts}

DurationInit ==
    /\ timeSlotArg \in TimeSlotInputs
    /\ durationResult = Num(0)
    /\ durationPc = "called"

CalculateSessionDuration ==
    /\ durationPc = "called"
    /\ durationResult' = calculateSessionDuration(timeSlotArg)
    /\ durationPc' = "returned"
    /\ UNCHANGED <<timeSlotArg, exceptDuration>>

-----------------------------------------------------------------------------
(* Risk level cell of a StudentAbsenteeHours table row *)

\* className of the risk badge
riskStyle(totalAbsentHours) ==
    IF NumGE(totalAbsentHours, 15 * UnitsPerHour) THEN "bg-red-600 text-white"
    ELSE IF NumGE(totalAbsentHours, 10 * UnitsPerHour) THEN "bg-red-100 text-red-600"
    ELSE IF NumGE(totalAbsentHours, 5 * UnitsPerHour) THEN "bg-blue-100 text-blue-600"
    ELSE "bg-white text-black border-2 border-black"

\* riskLabel with exclusive lower bounds
riskLabelExclusive(totalAbsentHours) ==
    IF ~totalAbsentHours.nan /\ totalAbsentHours.v > 15 * UnitsPerHour THEN "Critical"
    ELSE IF ~totalAbsentHours.nan /\ totalAbsentHours.v > 10 * UnitsPerHour THEN "High"
    ELSE IF ~totalAbsentHours.nan /\ totalAbsentHours.v > 5 * UnitsPerHour THEN "Medium"
    ELSE "Low"

\* text of the risk badge
riskLabel(totalAbsentHours) ==
    IF NumGE(totalAbsentHours, 15 * UnitsPerHour) THEN "Critical"
    ELSE IF NumGE(totalAbsentHours, 10 * UnitsPerHour) THEN "High"
    ELSE IF NumGE(totalAbsentHours, 5 * UnitsPerHour) THEN "Medium"
    ELSE "Low"

\* largest total (in model units) a rendered row is given
MaxRowUnits == 1000

RiskIdle ==
    /\ rowHours = Num(0)
    /\ rowStyle = ""
    /\ rowLabel = ""
    /\ rowPc = "idle"

RiskInit ==
    /\ rowHours \in {Num(n) : n \in 0..MaxRowUnits} \cup {NaN}
    /\ rowStyle = ""
    /\ rowLabel = ""
    /\ rowPc = "row"

RenderRiskCell ==
    /\ rowPc = "row"
    /\ rowStyle' = riskStyle(rowHours)
    /\ rowLabel' = riskLabel(rowHours)
    /\ rowPc' = "rendered"
    /\ UNCHANGED <<rowHours, exceptRisk>>

-----------------------------------------------------------------------------
(* get_student_absentee_hours.php *)

DayNames == <<"Saturday", "Sunday", "Monday", "Tuesday", "Wednesday", "Thursday",
              "Friday">>
\* DAYNAME of a date given as the number of days since Saturday 2000-01-01
DAYNAME(date) == DayNames[(date % 7) + 1]

studentsTable ==
    {[id |-> 1, name |-> "Ann", matricule |-> "M1", field |-> "CS", level |-> "L1"],
     [id |-> 2, name |-> "Bob", matricule |-> "M2", field |-> "IT", level |-> "L2"]}
coursesTable ==
    {[id |-> 1, title |-> "Algebra", code |-> "MA1"],
     [id |-> 2, title |-> "Networks", code |-> "NW2"]}
sessionsTable ==
    {[id |-> 1, course_id |-> 1, date |-> 2],
     [id |-> 2, course_id |-> 2, date |-> 3]}

\* rows the attendance table is filled from: absences, a presence, and a row
\* whose student does not exist
AttendancePool ==
    {[id |-> 1, student_id |-> 1, session_id |-> 1, is_present |-> 0, timestamp |-> 10],
     [id |-> 2, student_id |-> 2, session_id |-> 1, is_present |-> 1, timestamp |-> 10],
     [id |-> 3, student_id |-> 2, session_id |-> 2, is_present |-> 0, timestamp |-> 20],
     [id |-> 4, student_id |-> 1, session_id |-> 2, is_present |-> 0, timestamp |-> 20],
     [id |-> 5, student_id |-> 9, session_id |-> 1, is_present |-> 0, timestamp |-> 30]}

\* rows the timetable table is filled from: two slots of course 1 on the day of
\* its session, one slot of course 2 on the day of its session and one on
\* another day
TimetablePool ==
    {[id |-> 1, course_id |-> 1, day |-> "Monday",
      time_slot |-> Str(TimeText(8, 0) \o SlotSeparator \o TimeText(10, 0))],
     [id |-> 2, course_id |-> 1, day |-> "Monday",
      time_slot |-> Str(TimeText(9, 0) \o SlotSeparator \o TimeText(10, 0))],
     [id |-> 3, course_id |-> 2, day |-> "Tuesday",
      time_slot |-> Str(TimeText(8, 0) \o SlotSeparator \o TimeText(9, 30))],
     [id |-> 4, course_id |-> 2, day |-> "Friday",
      time_slot |-> Str(TimeText(8, 0) \o SlotSeparator \o TimeText(10, 0))]}

\* FROM attendance a INNER JOIN students s ON a.student_id = s.id
\* INNER JOIN sessions sess ON a.session_id = sess.id
\* INNER JOIN courses c ON sess.course_id = c.id WHERE a.is_present = 0
InnerJoin(att) ==
    {j \in {[a |-> a, s |-> s, sess |-> sess, c |-> c] :
                a \in att, s \in studentsTable, sess \in sessionsTable,
                c \in coursesTable} :
        /\ j.a.student_id = j.s.id
        /\ j.a.session_id = j.sess.id
        /\ j.sess.course_id = j.c.id
        /\ j.a.is_present = 0}

\* ON c.id = t.course_id AND t.day = DAYNAME(sess.date)
TimetableMatches(j, tt) ==
    {t \in tt : j.c.id = t.course_id /\ t.day = DAYNAME(j.sess.date)}

\* LEFT JOIN timetable t: one joined row per matching timetable row, and one
\* with NULL timetable columns when none matches
LeftJoin(att, tt) ==
    UNION {IF TimetableMatches(j, tt) = {}
           THEN {[j |-> j, tid |-> 0, time_slot |-> Null]}
           ELSE {[j |-> j, tid |-> t.id, time_slot |-> t.time_slot] :
                    t \in TimetableMatches(j, tt)} :
           j \in InnerJoin(att)}

\* the SELECT list
SelectRow(x) ==
    [id |-> x.j.a.id,
     studentId |-> x.j.s.id,
     studentName |-> x.j.s.name,
     matricule |-> x.j.s.matricule,
     fieldName |-> x.j.s.field,
     level |-> x.j.s.level,
     sessionId |-> x.j.sess.id,
     courseTitle |-> x.j.c.title,
     courseCode |-> x.j.c.code,
     timeSlot |-> x.time_slot,
     date |-> x.j.a.timestamp]

\* collation of the student names
NameOrder == <<"Ann", "Bob">>
NameRank(name) == CHOOSE i \in 1..Len(NameOrder) : NameOrder[i] = name

\* ORDER BY a.timestamp DESC, s.name ASC
OrderedBefore(x, y) ==
    \/ x.j.a.timestamp > y.j.a.timestamp
    \/ /\ x.j.a.timestamp = y.j.a.timestamp
       /\ NameRank(x.j.s.name) < NameRank(y.j.s.name)

\* the joined rows in the order of ORDER BY; rows the order does not separate
\* come in an order of the database's choosing
RECURSIVE OrderBy(_)
OrderBy(joined) ==
    IF joined = {} THEN <<>>
    ELSE LET first == CHOOSE x \in joined : \A y \in joined : ~OrderedBefore(y, x)
         IN <<first>> \o OrderBy(joined \ {first})

\* the result set of the statement
AbsenteeQuery(att, tt) ==
    LET ordered == OrderBy(LeftJoin(att, tt))
    IN [i \in 1..Len(ordered) |-> SelectRow(ordered[i])]

\* sendResponse(data, code) of config.php: sets the status code, writes the
\* JSON of data and ends the script
SendResponse(body, data, code) ==
    [status |-> code, body |-> Append(body, data), pc |-> "done"]

MethodNotAllowed ==
    [kind |-> "error", error |-> <<"Method not allowed">>, rows |-> <<>>]
FetchFailed(message) ==
    [kind |-> "error",
     error |-> <<"Failed to fetch student absentee hours: ", message>>,
     rows |-> <<>>]

RequestMethods == {"GET", "POST", "PUT"}

PhpIdle ==
    /\ attendance = {}
    /\ timetable = {}
    /\ requestMethod = ""
    /\ phpPc = "idle"
    /\ queryIssued = FALSE
    /\ stmtRows = <<>>
    /\ absenteeData = <<>>
    /\ exceptionMessage = ""
    /\ responseStatus = 0
    /\ responseBody = <<>>

\* a request arrives; the status of a response is 200 until it is set
PhpInit ==
    /\ attendance \in SUBSET AttendancePool
    /\ timetable \in SUBSET TimetablePool
    /\ requestMethod \in RequestMethods
    /\ phpPc = "method"
    /\ queryIssued = FALSE
    /\ stmtRows = <<>>
    /\ absenteeData = <<>>
    /\ exceptionMessage = ""
    /\ responseStatus = 200
    /\ responseBody = <<>>

\* CheckRequestMethod rejecting POST only
CheckRequestMethodPostOnly ==
    /\ phpPc = "method"
    /\ IF requestMethod = "POST"
       THEN LET r == SendResponse(responseBody, MethodNotAllowed, 405)
            IN /\ responseStatus' = r.status
               /\ responseBody' = r.body
               /\ phpPc' = r.pc
       ELSE /\ phpPc' = "query"
            /\ UNCHANGED <<responseStatus, responseBody>>
    /\ UNCHANGED <<tableVars, requestMethod, queryIssued, stmtRows, absenteeData,
                   exceptionMessage, exceptPhp>>

\* if ($_SERVER['REQUEST_METHOD'] !== 'GET') sendResponse(..., 405)
CheckRequestMethod ==
    /\ phpPc = "method"
    /\ IF requestMethod # "GET"
       THEN LET r == SendResponse(responseBody, MethodNotAllowed, 405)
            IN /\ responseStatus' = r.status
               /\ responseBody' = r.body
               /\ phpPc' = r.pc
       ELSE /\ phpPc' = "query"
            /\ UNCHANGED <<responseStatus, responseBody>>
    /\ UNCHANGED <<tableVars, requestMethod, queryIssued, stmtRows, absenteeData,
                   exceptionMessage, exceptPhp>>

\* $stmt = $pdo->query($sql): the result set, or an exception
RunQuery ==
    /\ phpPc = "query"
    /\ queryIssued' = TRUE
    /\ \E failure \in {"", "SQLSTATE[HY000]"} :
          IF failure = ""
          THEN /\ stmtRows' = AbsenteeQuery(attendance, timetable)
               /\ phpPc' = "fetch"
               /\ UNCHANGED exceptionMessage
          ELSE /\ exceptionMessage' = failure
               /\ phpPc' = "catch"
               /\ UNCHANGED stmtRows
    /\ UNCHANGED <<tableVars, requestMethod, absenteeData, responseStatus,
                   responseBody, exceptPhp>>

\* FetchAll keeping the rows read before the failure
FetchAllPartial ==
    /\ phpPc = "fetch"
    /\ \E failure \in {"", "SQLSTATE[HY001]"} :
          IF failure = ""
          THEN /\ absenteeData' = stmtRows
               /\ phpPc' = "echo"
               /\ UNCHANGED exceptionMessage
          ELSE /\ exceptionMessage' = failure
               /\ absenteeData' = SubSeq(stmtRows, 1, Len(stmtRows) - 1)
               /\ phpPc' = "echo"
    /\ UNCHANGED <<tableVars, requestMethod, queryIssued, stmtRows, responseStatus,
                   responseBody, exceptPhp>>

\* $absenteeData = $stmt->fetchAll(PDO::FETCH_ASSOC): all rows, or an exception
FetchAll ==
    /\ phpPc = "fetch"
    /\ \E failure \in {"", "SQLSTATE[HY001]"} :
          IF failure = ""
          THEN /\ absenteeData' = stmtRows
               /\ phpPc' = "echo"
               /\ UNCHANGED exceptionMessage
          ELSE /\ exceptionMessage' = failure
               /\ phpPc' = "catch"
               /\ UNCHANGED absenteeData
    /\ UNCHANGED <<tableVars, requestMethod, queryIssued, stmtRows, responseStatus,
                   responseBody, exceptPhp>>

\* echo json_encode($absenteeData), the last statement of the try block
EchoJson ==
    /\ phpPc = "echo"
    /\ responseBody' =
           Append(responseBody, [kind |-> "rows", error |-> <<>>, rows |-> absenteeData])
    /\ phpPc' = "done"
    /\ UNCHANGED <<tableVars, requestMethod, queryIssued, stmtRows, absenteeData,
                   exceptionMessage, responseStatus, exceptPhp>>

\* catch (Exception $e) { sendResponse([...], 500); }
CatchException ==
    /\ phpPc = "catch"
    /\ LET r == SendResponse(responseBody, FetchFailed(exceptionMessage), 500)
       IN /\ responseStatus' = r.status
          /\ responseBody' = r.body
          /\ phpPc' = r.pc
    /\ UNCHANGED <<tableVars, requestMethod, queryIssued, stmtRows, absenteeData,
                   exceptionMessage, exceptPhp>>

-----------------------------------------------------------------------------
(* StudentAbsenteeHours *)

StudentAnn ==
    [id |-> "1", name |-> "Ann", matricule |-> "M1", field |-> "CS", level |-> "L1"]
StudentBob ==
    [id |-> "2", name |-> "Bob", matricule |-> "M2", field |-> "IT", level |-> "L2"]

\* values of the students prop
StudentLists == {<<StudentAnn>>, <<StudentAnn, StudentBob>>}

AbsenceRecord(studentId, matricule, timeSlot) ==
    [studentId |-> studentId, matricule |-> matricule, timeSlot |-> timeSlot,
     date |-> "2024-03-04 08:00:00", courseTitle |-> "Algebra", courseCode |-> "MA1"]

\* records an API response is made of: a record of Ann without slot, a record
\* with Ann's id and Bob's matricule, and a record with Ann's matricule only
\* and a malformed slot
AbsenceRecords ==
    {AbsenceRecord("1", "M1", Null),
     AbsenceRecord("1", "M2", Str(TimeText(8, 0) \o SlotSeparator \o TimeText(9, 30))),
     AbsenceRecord("3", "M1", Str(<<"a", "b">>))}

\* longest API response
MaxRecords == 2
\* number of calls of loadAbsenteeHours in a run
MaxLoads == 2

SeqsUpTo(S, n) == UNION {[1..k -> S] : k \in 0..n}
ApiResponses == SeqsUpTo(AbsenceRecords, MaxRecords)

\* absentSessions.reduce((sum, session) => sum + session.duration, 0)
RECURSIVE SumDurationsOf(_)
SumDurationsOf(absentSessions) ==
    IF absentSessions = <<>> THEN Num(0)
    ELSE NumAdd(SumDurationsOf(SubSeq(absentSessions, 1, Len(absentSessions) - 1)),
                absentSessions[Len(absentSessions)].duration)

\* calculateSessionDuration of the slots of the records, evaluated once
sessionDurations ==
    [timeSlot \in {r.timeSlot : r \in AbsenceRecords} |->
        calculateSessionDuration(timeSlot)]

AbsentSession(absence) ==
    [date |-> absence.date,
     course |-> absence.courseTitle,
     courseCode |-> absence.courseCode,
     duration |-> sessionDurations[absence.timeSlot],
     timeSlot |-> absence.timeSlot]

\* the row of one student
StudentHours(student, absences) ==
    LET absentSessions == [k \in 1..Len(absences) |-> AbsentSession(absences[k])]
    IN [studentId |-> student.id,
        studentName |-> student.name,
        matricule |-> student.matricule,
        field |-> student.field,
        level |-> student.level,
        totalAbsentHours |-> SumDurationsOf(absentSessions),
        absentSessions |-> absentSessions]

\* HoursData keeping the records that match both the id and the matricule
HoursDataBothMatch(students, data) ==
    [i \in 1..Len(students) |->
        LET Matches(record) ==
                /\ record.studentId = students[i].id
                /\ record.matricule = students[i].matricule
        IN StudentHours(students[i], SelectSeq(data, Matches))]

\* hoursData = students.map(student => ...)
HoursData(students, data) ==
    [i \in 1..Len(students) |->
        LET Matches(record) ==
                \/ record.studentId = students[i].id
                \/ record.matricule = students[i].matricule
        IN StudentHours(students[i], SelectSeq(data, Matches))]

LoadFailedMessage == Str(<<"Failed to load absentee hours data. Please try again.">>)

\* the entry 'rollcall_cached_absentee_hours' of LocalDBService
NoCacheEntry == [present |-> FALSE, value |-> <<>>]
CacheEntry(value) == [present |-> TRUE, value |-> value]
\* LocalDBService.cacheData(key, value)
CacheData(entry, value) == CacheEntry(value)
\* LocalDBService.getCachedData(key): the stored value, null when there is none
GetCachedData(entry) == entry

\* the call of loadAbsenteeHours that completed last, and the outcome of the
\* call that completed before it
NoLoad ==
    [id |-> 0, outcome |-> "none", students |-> <<>>, data |-> <<>>,
     previous |-> "none"]

HoursIdle ==
    /\ studentsProp = <<>>
    /\ absenteeHours = <<>>
    /\ hoursLoading = FALSE
    /\ hoursError = Null
    /\ hoursCache = NoCacheEntry
    /\ hoursMounted = FALSE
    /\ hoursPending = {}
    /\ hoursRequests = 0
    /\ hoursLast = NoLoad

\* useState initial values; the cache entry may be left from an earlier visit
HoursInit ==
    /\ studentsProp \in StudentLists
    /\ absenteeHours = <<>>
    /\ hoursLoading = TRUE
    /\ hoursError = Null
    /\ hoursCache \in
           {NoCacheEntry,
            CacheEntry(HoursData(<<StudentAnn>>,
                                 <<AbsenceRecord("1", "M1", Null)>>))}
    /\ hoursMounted = FALSE
    /\ hoursPending = {}
    /\ hoursRequests = 0
    /\ hoursLast = NoLoad

\* StartLoad without setError(null)
StartLoadKeepingError(students) ==
    /\ hoursRequests < MaxLoads
    /\ hoursLoading' = TRUE
    /\ hoursError' = hoursError
    /\ hoursRequests' = hoursRequests + 1
    /\ hoursPending' = hoursPending \cup {[id |-> hoursRequests + 1, students |-> students]}

\* loadAbsenteeHours up to its await: one request, with the students of the
\* render the function belongs to
StartLoad(students) ==
    /\ hoursRequests < MaxLoads
    /\ hoursLoading' = TRUE
    /\ hoursError' = Null
    /\ hoursRequests' = hoursRequests + 1
    /\ hoursPending' = hoursPending \cup {[id |-> hoursRequests + 1, students |-> students]}

\* useEffect(() => { loadAbsenteeHours(); }, [students]) after the first render
HoursMount ==
    /\ page = "hours"
    /\ ~hoursMounted
    /\ hoursMounted' = TRUE
    /\ StartLoad(studentsProp)
    /\ UNCHANGED <<studentsProp, absenteeHours, hoursCache, hoursLast, exceptHours>>

\* the parent passes another students array: the effect runs again
HoursStudentsChange ==
    /\ hoursMounted
    /\ \E students \in StudentLists :
          /\ studentsProp' = students
          /\ StartLoad(students)
    /\ UNCHANGED <<absenteeHours, hoursCache, hoursMounted, hoursLast, exceptHours>>

\* what the component renders
HoursView ==
    IF hoursLoading THEN "loading"
    ELSE IF Truthy(hoursError) THEN "error"
    ELSE "table"

\* onClick={loadAbsenteeHours} of the Try Again button of the error banner
HoursTryAgain ==
    /\ hoursMounted
    /\ HoursView = "error"
    /\ StartLoad(studentsProp)
    /\ UNCHANGED <<studentsProp, absenteeHours, hoursCache, hoursMounted, hoursLast,
                   exceptHours>>

\* APIService.getStudentAbsenteeHours() resolves: the rest of the try block and
\* the finally block
HoursApiResolve ==
    /\ \E load \in hoursPending, data \in ApiResponses :
          LET hoursData == HoursData(load.students, data)
          IN /\ absenteeHours' = hoursData
             /\ hoursCache' = CacheData(hoursCache, hoursData)
             /\ hoursLoading' = FALSE
             /\ hoursPending' = hoursPending \ {load}
             /\ hoursLast' = [id |-> load.id, outcome |-> "ok",
                              students |-> load.students, data |-> data,
                              previous |-> hoursLast.outcome]
    /\ UNCHANGED <<studentsProp, hoursError, hoursMounted, hoursRequests, exceptHours>>

\* HoursApiReject with a catch block that calls loadAbsenteeHours again
HoursApiRejectRetry ==
    /\ \E load \in hoursPending :
          LET cachedData == GetCachedData(hoursCache)
              again == hoursRequests < MaxLoads
          IN /\ hoursError' = IF again THEN Null ELSE LoadFailedMessage
             /\ absenteeHours' =
                    IF cachedData.present THEN cachedData.value ELSE absenteeHours
             /\ hoursLoading' = again
             /\ hoursRequests' = IF again THEN hoursRequests + 1 ELSE hoursRequests
             /\ hoursPending' =
                    (hoursPending \ {load}) \cup
                        (IF again
                         THEN {[id |-> hoursRequests + 1, students |-> load.students]}
                         ELSE {})
             /\ hoursLast' = [id |-> load.id, outcome |-> "failed",
                              students |-> load.students, data |-> <<>>,
                              previous |-> hoursLast.outcome]
    /\ UNCHANGED <<studentsProp, hoursCache, hoursMounted, exceptHours>>

\* HoursApiReject with a catch block that caches what it shows
HoursApiRejectCaching ==
    /\ \E load \in hoursPending :
          LET cachedData == GetCachedData(hoursCache)
          IN /\ hoursError' = LoadFailedMessage
             /\ absenteeHours' =
                    IF cachedData.present THEN cachedData.value ELSE absenteeHours
             /\ hoursCache' = CacheData(hoursCache, absenteeHours')
             /\ hoursLoading' = FALSE
             /\ hoursPending' = hoursPending \ {load}
             /\ hoursLast' = [id |-> load.id, outcome |-> "failed",
                              students |-> load.students, data |-> <<>>,
                              previous |-> hoursLast.outcome]
    /\ UNCHANGED <<studentsProp, hoursMounted, hoursRequests, exceptHours>>

\* APIService.getStudentAbsenteeHours() rejects: the catch block and the
\* finally block
HoursApiReject ==
    /\ \E load \in hoursPending :
          LET cachedData == GetCachedData(hoursCache)
          IN /\ hoursError' = LoadFailedMessage
             /\ absenteeHours' =
                    IF cachedData.present THEN cachedData.value ELSE absenteeHours
             /\ hoursLoading' = FALSE
             /\ hoursPending' = hoursPending \ {load}
             /\ hoursLast' = [id |-> load.id, outcome |-> "failed",
                              students |-> load.students, data |-> <<>>,
                              previous |-> hoursLast.outcome]
    /\ UNCHANGED <<studentsProp, hoursCache, hoursMounted, hoursRequests, exceptHours>>

-----------------------------------------------------------------------------
(* Reports *)

\* Times are milliseconds since 2000-01-01T00:00:00Z; a date is a day of
\* January 2000; the time zone is the offset of local time from UTC in hours.
MsPerHour == 60 * 60 * 1000
MsPerDay == 24 * MsPerHour

\* new Date('2000-01-DD'): a date-only ISO string is UTC midnight
DateOnlyTime(day) == (day - 1) * MsPerDay

\* date.setHours(23, 59, 59, 999): the end of the local day the time lies in
SetHoursEndOfDay(time, tz) ==
    LET localTime == time + tz * MsPerHour
        localMidnight == (localTime \div MsPerDay) * MsPerDay
    IN localMidnight + ((23 * 60 + 59) * 60 + 59) * 1000 + 999 - tz * MsPerHour

\* new Date(record.date): '2000-01-DD HH:00:00' is local time,
\* '2000-01-DDTHH:00:00.000Z' is UTC
RecordTime(date, tz) ==
    ((date.day - 1) * 24 + date.hour) * MsPerHour
        - (IF date.zone = "Z" THEN 0 ELSE tz * MsPerHour)

\* decimal digits of a natural number
RECURSIVE DecimalText(_)
DecimalText(n) ==
    IF n < 10 THEN <<DigitChars[n + 1]>>
    ELSE DecimalText(n \div 10) \o <<DigitChars[(n % 10) + 1]>>

\* new Date(record.date).toLocaleDateString(), en-US: M/D/YYYY of the local day
LocaleDateString(time, tz) ==
    LET localDay == ((time + tz * MsPerHour) \div MsPerDay) + 1
    IN <<"1", "/">> \o DecimalText(localDay) \o <<"/", "2", "0", "0", "0">>

ReportRecord(name, field, level, day, hour, zone) ==
    [studentName |-> name, matricule |-> <<"M", "1">>, fieldName |-> field,
     level |-> level, courseTitle |-> <<"Algebra">>, courseCode |-> <<"MA1">>,
     parentName |-> <<"Eve">>, parentPhone |-> <<"6", "5", "0">>,
     date |-> [day |-> day, hour |-> hour, zone |-> zone]]

\* records a report is made of: one early on day 2 in UTC notation, one late
\* on day 2 in local notation, one at noon of day 2 in UTC notation
ReportAnn == ReportRecord(<<"Ann">>, <<"CS">>, <<"L1">>, 2, 1, "Z")
ReportBob == ReportRecord(<<"Bob">>, <<"IT">>, <<"L2">>, 2, 23, "local")
ReportNoon == ReportRecord(<<"Noa">>, <<"CS">>, <<"L1">>, 2, 12, "Z")

\* arrays the report API answers with
ReportResponses ==
    {<<>>, <<ReportAnn>>, <<ReportBob>>, <<ReportAnn, ReportBob>>,
     <<ReportBob, ReportAnn>>, <<ReportNoon>>}

\* new Date().toISOString().split('T')[0]: today
Today == 2
\* values the inputs of the filter modal are given
DateOptions == {Today}
FieldOptions == {<<>>, <<"CS">>}
LevelOptions == {<<>>}
ReportTypes == {"daily", "weekly", "monthly"}
TimeZones == {0 - 5, 0}

InitialFilters ==
    [dateFrom |-> Today, dateTo |-> Today, fieldName |-> <<>>, level |-> <<>>,
     reportType |-> "daily"]

\* Apply filters to the data
FilterReport(reportData, f, tz) ==
    LET FieldIs(record) == record.fieldName = f.fieldName
        LevelIs(record) == record.level = f.level
        byField == IF f.fieldName # <<>> THEN SelectSeq(reportData, FieldIs)
                   ELSE reportData
        byLevel == IF f.level # <<>> THEN SelectSeq(byField, LevelIs) ELSE byField
        fromDate == DateOnlyTime(f.dateFrom)
        toDate == SetHoursEndOfDay(DateOnlyTime(f.dateTo), tz)
        InRange(record) ==
            /\ RecordTime(record.date, tz) >= fromDate
            /\ RecordTime(record.date, tz) <= toDate
    IN SelectSeq(byLevel, InRange)

ReportFailedMessage == Str(<<"Failed to load absentee report. Please try again.">>)

NoReportLoad ==
    [id |-> 0, api |-> "none", filters |-> InitialFilters, source |-> <<>>]

ReportsIdle ==
    /\ absentees = <<>>
    /\ filters = InitialFilters
    /\ reportsLoading = FALSE
    /\ reportsError = Null
    /\ showFilters = FALSE
    /\ localRecords = NoCacheEntry
    /\ cachedReports = NoCacheEntry
    /\ reportsMounted = FALSE
    /\ reportsPending = {}
    /\ reportsRequests = 0
    /\ reportsLast = NoReportLoad
    /\ timezone = 0

\* useState initial values; 'rollcall_absentee_records' may hold the records
\* of roll calls submitted earlier
ReportsInit ==
    /\ absentees = <<>>
    /\ filters = InitialFilters
    /\ reportsLoading = FALSE
    /\ reportsError = Null
    /\ showFilters = FALSE
    /\ localRecords \in
           {NoCacheEntry,
            CacheEntry(<<ReportAnn, ReportBob>>)}
    /\ cachedReports = NoCacheEntry
    /\ reportsMounted = FALSE
    /\ reportsPending = {}
    /\ reportsRequests = 0
    /\ reportsLast = NoReportLoad
    /\ timezone \in TimeZones

\* loadAbsenteeReport up to its await: one request, with the filters of the
\* render the function belongs to
StartReportLoad(f) ==
    /\ reportsRequests < MaxLoads
    /\ reportsLoading' = TRUE
    /\ reportsError' = Null
    /\ reportsRequests' = reportsRequests + 1
    /\ reportsPending' = reportsPending \cup {[id |-> reportsRequests + 1, filters |-> f]}

\* useEffect(() => { loadAbsenteeReport(); }, [filters.reportType]), first run
ReportsMount ==
    /\ page = "reports"
    /\ ~reportsMounted
    /\ reportsMounted' = TRUE
    /\ StartReportLoad(filters)
    /\ UNCHANGED <<absentees, filters, showFilters, localRecords, cachedReports,
                   reportsLast, timezone, exceptReports>>

\* a report type tab: handleFilterChange('reportType', key); the effect runs
\* when the report type changed
ReportsSelectType ==
    /\ reportsMounted
    /\ \E key \in ReportTypes :
          /\ filters' = [filters EXCEPT !.reportType = key]
          /\ IF key # filters.reportType
             THEN StartReportLoad(filters')
             ELSE UNCHANGED <<reportsLoading, reportsError, reportsRequests,
                              reportsPending>>
    /\ UNCHANGED <<absentees, showFilters, localRecords, cachedReports,
                   reportsMounted, reportsLast, timezone, exceptReports>>

\* the Filters button and the X of the modal
ReportsToggleFilters ==
    /\ reportsMounted
    /\ showFilters' = ~showFilters
    /\ UNCHANGED <<absentees, filters, reportsLoading, reportsError, localRecords,
                   cachedReports, reportsMounted, reportsPending, reportsRequests,
                   reportsLast, timezone, exceptReports>>

\* an input of the modal: handleFilterChange(key, value)
ReportsChangeFilter ==
    /\ reportsMounted
    /\ showFilters
    /\ \/ \E day \in DateOptions : filters' = [filters EXCEPT !.dateFrom = day]
       \/ \E day \in DateOptions : filters' = [filters EXCEPT !.dateTo = day]
       \/ \E field \in FieldOptions : filters' = [filters EXCEPT !.fieldName = field]
       \/ \E level \in LevelOptions : filters' = [filters EXCEPT !.level = level]
    /\ UNCHANGED <<absentees, reportsLoading, reportsError, showFilters, localRecords,
                   cachedReports, reportsMounted, reportsPending, reportsRequests,
                   reportsLast, timezone, exceptReports>>

\* handleApplyFilters; the button is disabled while loading
ReportsApplyFilters ==
    /\ reportsMounted
    /\ showFilters
    /\ ~reportsLoading
    /\ StartReportLoad(filters)
    /\ showFilters' = FALSE
    /\ UNCHANGED <<absentees, filters, localRecords, cachedReports, reportsMounted,
                   reportsLast, timezone, exceptReports>>

\* handleResetFilters; the effect runs when the report type changed
ReportsResetFilters ==
    /\ reportsMounted
    /\ showFilters
    /\ filters' = InitialFilters
    /\ IF filters.reportType # InitialFilters.reportType
       THEN StartReportLoad(InitialFilters)
       ELSE UNCHANGED <<reportsLoading, reportsError, reportsRequests, reportsPending>>
    /\ UNCHANGED <<absentees, showFilters, localRecords, cachedReports,
                   reportsMounted, reportsLast, timezone, exceptReports>>

\* the try block from "Apply filters to the data" on, and the finally block
FinishReportLoad(load, api, reportData) ==
    LET filteredData == FilterReport(reportData, load.filters, timezone)
    IN /\ absentees' = filteredData
       /\ cachedReports' =
              IF Len(filteredData) > 0 THEN CacheData(cachedReports, filteredData)
              ELSE cachedReports
       /\ reportsLoading' = FALSE
       /\ reportsPending' = reportsPending \ {load}
       /\ reportsLast' = [id |-> load.id, api |-> api, filters |-> load.filters,
                          source |-> reportData]
       /\ UNCHANGED reportsError

\* APIService.getAbsenteeReport(filterParams) resolves with an array
ReportsApiResolve ==
    /\ \E load \in reportsPending, data \in ReportResponses :
          FinishReportLoad(load, "ok", data)
    /\ UNCHANGED <<filters, showFilters, localRecords, reportsMounted,
                   reportsRequests, timezone, exceptReports>>

\* APIService.getAbsenteeReport(filterParams) rejects: the inner catch block
\* takes the records of 'rollcall_absentee_records', or [] when there are none
ReportsApiReject ==
    /\ \E load \in reportsPending :
          LET localAbsentees ==
                  IF GetCachedData(localRecords).present
                  THEN GetCachedData(localRecords).value
                  ELSE <<>>
          IN FinishReportLoad(load, "failed", localAbsentees)
    /\ UNCHANGED <<filters, showFilters, localRecords, reportsMounted,
                   reportsRequests, timezone, exceptReports>>

\* APIService.getAbsenteeReport(filterParams) resolves with a value that is not
\* an array: filteredData.filter throws, the outer catch block runs
ReportsApiMalformed ==
    /\ \E load \in reportsPending :
          /\ reportsError' = ReportFailedMessage
          /\ absentees' = <<>>
          /\ reportsLoading' = FALSE
          /\ reportsPending' = reportsPending \ {load}
          /\ reportsLast' = [id |-> load.id, api |-> "malformed",
                             filters |-> load.filters, source |-> <<>>]
    /\ UNCHANGED <<filters, showFilters, localRecords, cachedReports, reportsMounted,
                   reportsRequests, timezone, exceptReports>>

\* Array.prototype.join
RECURSIVE Join(_, _)
Join(items, sep) ==
    IF items = <<>> THEN <<>>
    ELSE IF Len(items) = 1 THEN items[1]
    ELSE items[1] \o sep \o Join(Tail(items), sep)

CsvHeader ==
    <<<<"Student Name">>, <<"Matricule">>, <<"Field">>, <<"Level">>, <<"Course">>,
      <<"Parent Name">>, <<"Parent Phone">>, <<"Date">>>>

\* the cells of one record
CsvCells(record, tz) ==
    <<record.studentName,
      record.matricule,
      record.fieldName,
      record.level,
      record.courseTitle \o <<" ", "(">> \o record.courseCode \o <<")">>,
      record.parentName,
      record.parentPhone,
      LocaleDateString(RecordTime(record.date, tz), tz)>>

\* csvContent of exportReport
CsvContent(records, tz) ==
    Join(<<Join(CsvHeader, <<",">>)>> \o
             [i \in 1..Len(records) |-> Join(CsvCells(records[i], tz), <<",">>)],
         <<"\n">>)

\* records of the lists exportReport and getGroupedAbsentees are applied to:
\* among them a name with a comma, two records of one field, and a field
\* whose name is the name of a property of Object.prototype
ExportRecords ==
    {ReportAnn, ReportBob,
     ReportRecord(<<"Cid", ",", " ", "Jr">>, <<"CS">>, <<"L2">>, 2, 12, "Z"),
     ReportRecord(<<"Dan">>, <<"Data Science">>, <<"L1">>, 3, 1, "local"),
     ReportRecord(<<"Eli">>, <<"constructor">>, <<"L1">>, 2, 12, "Z")}
MaxExportRecords == 3

ExportIdle ==
    /\ exportAbsentees = <<>>
    /\ exportTimezone = 0
    /\ csvContent = <<>>
    /\ exportPc = "idle"
    /\ groupedAbsentees = <<>>
    /\ groupsPc = "idle"

\* the Export button is there when absentees.length > 0
ExportInit ==
    /\ exportAbsentees \in SeqsUpTo(ExportRecords, MaxExportRecords) \ {<<>>}
    /\ exportTimezone \in TimeZones
    /\ csvContent = <<>>
    /\ exportPc = "shown"
    /\ groupedAbsentees = <<>>
    /\ groupsPc = "called"

\* exportReport
ExportReport ==
    /\ exportPc = "shown"
    /\ csvContent' = CsvContent(exportAbsentees, exportTimezone)
    /\ exportPc' = "downloaded"
    /\ UNCHANGED <<exportAbsentees, exportTimezone, groupedAbsentees, groupsPc,
                   exceptExport>>

\* names of properties every object inherits from Object.prototype
ObjectPrototypeKeys ==
    {<<"constructor">>, <<"toString">>, <<"valueOf">>, <<"hasOwnProperty">>,
     <<"__proto__">>}

\* the object acc of the reduce: its own properties in insertion order
EmptyObject == [threw |-> FALSE, entries |-> <<>>]

\* the callback of the reduce: acc[key] is the own property when there is one,
\* else the inherited one, else undefined; push on an inherited value, which
\* is no array, throws a TypeError
GroupInto(acc, record) ==
    LET key == record.fieldName
        own == {i \in 1..Len(acc.entries) : acc.entries[i].key = key}
    IN IF acc.threw THEN acc
       ELSE IF own # {}
       THEN LET i == CHOOSE i \in own : TRUE
            IN [acc EXCEPT !.entries[i].records = Append(@, record)]
       ELSE IF key \in ObjectPrototypeKeys
       THEN [acc EXCEPT !.threw = TRUE]
       ELSE [acc EXCEPT !.entries = Append(@, [key |-> key, records |-> <<record>>])]

\* absentees.reduce(callback, {})
RECURSIVE GroupReduce(_, _)
GroupReduce(records, acc) ==
    IF records = <<>> THEN acc
    ELSE GroupReduce(Tail(records), GroupInto(acc, Head(records)))

\* Object.entries(grouped).map(([fieldName, records]) => ...)
GroupEntries(grouped) ==
    [i \in 1..Len(grouped.entries) |->
        [fieldName |-> grouped.entries[i].key,
         records |-> grouped.entries[i].records,
         count |-> Len(grouped.entries[i].records)]]

\* getGroupedAbsentees, called by the render
GetGroupedAbsentees ==
    /\ groupsPc = "called"
    /\ LET grouped == GroupReduce(exportAbsentees, EmptyObject)
       IN IF grouped.threw
          THEN /\ groupsPc' = "threw"
               /\ UNCHANGED groupedAbsentees
          ELSE /\ groupsPc' = "returned"
               /\ groupedAbsentees' = GroupEntries(grouped)
    /\ UNCHANGED <<exportAbsentees, exportTimezone, csvContent, exportPc, exceptExport>>

-----------------------------------------------------------------------------
(* Specifications *)

\* the pages: StudentAbsenteeHours is rendered on one, Reports on the other
Pages == {"hours", "reports"}

NextDuration == CalculateSessionDuration
InitDuration ==
    DurationInit /\ RiskIdle /\ PhpIdle /\ HoursIdle /\ ReportsIdle /\ ExportIdle
        /\ page = "none"
SpecDuration == InitDuration /\ [][NextDuration]_vars

NextRisk == RenderRiskCell
InitRisk ==
    RiskInit /\ DurationIdle /\ PhpIdle /\ HoursIdle /\ ReportsIdle /\ ExportIdle
        /\ page = "none"
SpecRisk == InitRisk /\ [][NextRisk]_vars

NextApi ==
    \/ CheckRequestMethod
    \/ RunQuery
    \/ FetchAll
    \/ EchoJson
    \/ CatchException
InitApi ==
    PhpInit /\ DurationIdle /\ RiskIdle /\ HoursIdle /\ ReportsIdle /\ ExportIdle
        /\ page = "none"
SpecApi == InitApi /\ [][NextApi]_vars

NextHours ==
    \/ HoursMount
    \/ HoursStudentsChange
    \/ HoursTryAgain
    \/ HoursApiResolve
    \/ HoursApiReject
InitHours ==
    HoursInit /\ DurationIdle /\ RiskIdle /\ PhpIdle /\ ReportsIdle /\ ExportIdle
        /\ page = "hours"
SpecHours == InitHours /\ [][NextHours]_vars

NextReports ==
    \/ ReportsMount
    \/ ReportsSelectType
    \/ ReportsToggleFilters
    \/ ReportsChangeFilter
    \/ ReportsApplyFilters
    \/ ReportsResetFilters
    \/ ReportsApiResolve
    \/ ReportsApiReject
    \/ ReportsApiMalformed
NextExport == ExportReport \/ GetGroupedAbsentees
InitExport ==
    ExportInit /\ DurationIdle /\ RiskIdle /\ PhpIdle /\ HoursIdle /\ ReportsIdle
        /\ page = "reports"
SpecExport == InitExport /\ [][NextExport]_vars

\* either page, from its first render on
NextFrontend ==
    \/ HoursMount
    \/ HoursStudentsChange
    \/ HoursTryAgain
    \/ HoursApiResolve
    \/ HoursApiReject
    \/ ReportsMount
    \/ ReportsSelectType
    \/ ReportsToggleFilters
    \/ ReportsChangeFilter
    \/ ReportsApplyFilters
    \/ ReportsResetFilters
    \/ ReportsApiResolve
    \/ ReportsApiReject
    \/ ReportsApiMalformed
InitFrontend ==
    /\ page \in Pages
    /\ IF page = "hours" THEN HoursInit /\ ReportsIdle ELSE ReportsInit /\ HoursIdle
    /\ DurationIdle /\ RiskIdle /\ PhpIdle /\ ExportIdle
SpecFrontend == InitFrontend /\ [][NextFrontend]_vars

InitReports ==
    ReportsInit /\ DurationIdle /\ RiskIdle /\ PhpIdle /\ HoursIdle /\ ExportIdle
        /\ page = "reports"
SpecReports == InitReports /\ [][NextReports]_vars

-----------------------------------------------------------------------------
(* Properties of calculateSessionDuration *)

ValidHours == {h \in HourInputs : h <= 23}
ValidMinutes == {m \in MinuteInputs : m <= 59}
IsValidTimeText(cs) == \E h \in 0..23, m \in 0..59 : cs = TimeText(h, m)
MaxOf(a, b) == IF a >= b THEN a ELSE b

\* C1: for a slot "HH:MM - HH:MM" of valid times the call returns
\* max(end - start in hours, 1): 1 when the end is less than an hour after
\* the start, equal to it or before it.
C1_ValidSlotDuration ==
    \A h1 \in ValidHours, h2 \in ValidHours, m1 \in ValidMinutes, m2 \in ValidMinutes :
        (/\ durationPc = "returned"
         /\ timeSlotArg = Str(TimeText(h1, m1) \o SlotSeparator \o TimeText(h2, m2)))
            => durationResult =
                   Num(MaxOf((h2 * 60 + m2) - (h1 * 60 + m1), 1 * 60))

\* the call returned 1 hour for a slot that ends before it starts
C1_Witness ==
    /\ durationPc = "returned"
    /\ timeSlotArg = Str(TimeText(10, 0) \o SlotSeparator \o TimeText(8, 30))
    /\ durationResult = Num(60)

\* a non-empty string without separator, or with a start or end piece that is
\* not a valid HH:MM time
Malformed(v) ==
    /\ Truthy(v)
    /\ LET parts == Split(v.chars, SlotSeparator)
       IN \/ Len(parts) < 2
          \/ ~IsValidTimeText(parts[1])
          \/ ~IsValidTimeText(parts[2])

\* C2: for a malformed non-empty slot the call returns 2 hours.
C2_MalformedSlotDefault ==
    (durationPc = "returned" /\ Malformed(timeSlotArg))
        => durationResult = Num(2 * 60)

-----------------------------------------------------------------------------
(* Properties of the risk level cell *)

StyleOfTier ==
    [Critical |-> "bg-red-600 text-white",
     High |-> "bg-red-100 text-red-600",
     Medium |-> "bg-blue-100 text-blue-600",
     Low |-> "bg-white text-black border-2 border-black"]

\* C5: a total is given exactly one tier, with inclusive lower bounds 15, 10
\* and 5 hours, and the label and the style of a row denote the same tier.
C5_RiskTiers ==
    rowPc = "rendered" =>
        /\ rowLabel \in {"Critical", "High", "Medium", "Low"}
        /\ rowStyle = StyleOfTier[rowLabel]
        /\ ~rowHours.nan =>
               /\ rowHours.v >= 15 * 60 => rowLabel = "Critical"
               /\ (rowHours.v >= 10 * 60 /\ rowHours.v < 15 * 60) => rowLabel = "High"
               /\ (rowHours.v >= 5 * 60 /\ rowHours.v < 10 * 60) => rowLabel = "Medium"
               /\ rowHours.v < 5 * 60 => rowLabel = "Low"

\* a row of exactly 10 hours is rendered High
C5_Witness ==
    /\ rowPc = "rendered"
    /\ rowHours = Num(10 * 60)
    /\ rowLabel = "High"
    /\ rowStyle = "bg-red-100 text-red-600"

-----------------------------------------------------------------------------
(* Properties of get_student_absentee_hours.php *)

\* the parts of the response body written so far
BodyParts == {responseBody[k] : k \in 1..Len(responseBody)}
\* the absentee rows written to the response so far
RowsWritten == UNION {{c.rows[i] : i \in 1..Len(c.rows)} : c \in BodyParts}

C10_GetResponse ==
    requestMethod = "GET" =>
        /\ \A c \in BodyParts : c.kind = "rows" => c.rows = stmtRows
        /\ phpPc = "done" =>
               IF exceptionMessage # ""
               THEN /\ responseStatus = 500
                    /\ Len(responseBody) = 1
                    /\ responseBody[1].kind = "error"
                    /\ responseBody[1].error[2] = exceptionMessage
                    /\ RowsWritten = {}
               ELSE /\ responseStatus = 200
                    /\ Len(responseBody) = 1
                    /\ responseBody[1].kind = "rows"
                    /\ LET rows == responseBody[1].rows
                       IN /\ Len(rows) = Cardinality(LeftJoin(attendance, timetable))
                          /\ \A x \in LeftJoin(attendance, timetable) :
                                 \E i \in 1..Len(rows) : rows[i] = SelectRow(x)

\* the fetch of a non-empty result set threw and the request was answered 500
C10_Witness ==
    /\ requestMethod = "GET"
    /\ phpPc = "done"
    /\ stmtRows # <<>>
    /\ exceptionMessage = "SQLSTATE[HY001]"
    /\ responseStatus = 500

\* the session's course has no timetable row on the session's day
NoTimetableEntry(row) ==
    \A sess \in sessionsTable : sess.id = row.sessionId =>
        ~\E t \in timetable : t.course_id = sess.course_id /\ t.day = DAYNAME(sess.date)

\* C3: calculateSessionDuration returns 2 hours for an empty, null or
\* undefined slot, which is the slot of every absentee row whose course has no
\* timetable entry on the session's day.
C3_MissingSlotDefault ==
    /\ \A v \in {Null, Undefined, Str(<<>>)} : calculateSessionDuration(v) = Num(2 * 60)
    /\ \A row \in RowsWritten :
           NoTimetableEntry(row) =>
               /\ row.timeSlot = Null
               /\ calculateSessionDuration(row.timeSlot) = Num(2 * 60)

\* the response holds a row of a course without timetable entry on that day
C3_Witness ==
    /\ phpPc = "done"
    /\ \E row \in RowsWritten : NoTimetableEntry(row) /\ row.timeSlot = Null
    /\ timetable # {}

-----------------------------------------------------------------------------
(* Properties of StudentAbsenteeHours *)

\* the positions of the records of data that are the student's by id or by
\* matricule
RecordsOf(student, data) ==
    {k \in 1..Len(data) :
        data[k].studentId = student.id \/ data[k].matricule = student.matricule}

RECURSIVE TotalOver(_, _)
TotalOver(positions, data) ==
    IF positions = {} THEN Num(0)
    ELSE LET k == CHOOSE p \in positions : TRUE
         IN NumAdd(calculateSessionDuration(data[k].timeSlot),
                   TotalOver(positions \ {k}, data))

\* the n-th smallest element of a set of positions
NthOf(positions, n) ==
    CHOOSE p \in positions : Cardinality({q \in positions : q < p}) = n - 1

\* C4: after a successful load every student of the load's students list has
\* one row, whose totalAbsentHours is the sum of calculateSessionDuration over
\* the fetched records that carry the student's id or matricule, and whose
\* absentSessions holds one entry per such record.
C4_TotalsPerStudent ==
    hoursLast.outcome = "ok" =>
        /\ Len(absenteeHours) = Len(hoursLast.students)
        /\ \A i \in 1..Len(hoursLast.students) :
               LET student == hoursLast.students[i]
                   mine == RecordsOf(student, hoursLast.data)
                   row == absenteeHours[i]
               IN /\ row.studentId = student.id
                  /\ row.matricule = student.matricule
                  /\ row.totalAbsentHours = TotalOver(mine, hoursLast.data)
                  /\ Len(row.absentSessions) = Cardinality(mine)
                  /\ \A n \in 1..Len(row.absentSessions) :
                         /\ row.absentSessions[n].timeSlot =
                                hoursLast.data[NthOf(mine, n)].timeSlot
                         /\ row.absentSessions[n].duration =
                                calculateSessionDuration(
                                    hoursLast.data[NthOf(mine, n)].timeSlot)

\* a load for Ann and Bob fetched the record with Ann's id and Bob's
\* matricule twice: it counts for both, 3 hours each
C4_Witness ==
    /\ hoursLast.outcome = "ok"
    /\ Len(hoursLast.students) = 2
    /\ Len(hoursLast.data) = 2
    /\ \A i \in 1..2 : absenteeHours[i].totalAbsentHours = Num(180)

\* C7: when the API call of a load fails and the cache entry exists, the
\* cached data is what the user sees once the load has completed.
C7_CachedDataShown ==
    (/\ hoursLast.outcome = "failed"
     /\ hoursCache.present
     /\ hoursPending = {})
        => /\ HoursView = "table"
           /\ absenteeHours = hoursCache.value

-----------------------------------------------------------------------------
(* Properties of Reports *)

CsvRows == Split(csvContent, <<"\n">>)
CsvColumns(row) == Split(row, <<",">>)

\* C6: the exported CSV is one header row followed by one data row per record
\* of absentees, in the same order, and every row has the eight columns name,
\* matricule, field, level, course, parent name, parent phone, date.
C6_CsvShape ==
    exportPc = "downloaded" =>
        /\ Len(CsvRows) = Len(exportAbsentees) + 1
        /\ \A r \in 1..Len(CsvRows) : Len(CsvColumns(CsvRows[r])) = 8
        /\ CsvColumns(CsvRows[1]) =
               <<<<"Student Name">>, <<"Matricule">>, <<"Field">>, <<"Level">>,
                 <<"Course">>, <<"Parent Name">>, <<"Parent Phone">>, <<"Date">>>>
        /\ \A i \in 1..Len(exportAbsentees) :
               LET columns == CsvColumns(CsvRows[i + 1])
                   record == exportAbsentees[i]
               IN /\ columns[1] = record.studentName
                  /\ columns[2] = record.matricule
                  /\ columns[3] = record.fieldName
                  /\ columns[4] = record.level
                  /\ columns[6] = record.parentName
                  /\ columns[7] = record.parentPhone

\* C8: when the API call of a load fails and no cached absentee records are
\* present, the error state is set once the load has completed.
C8_ErrorWithoutCache ==
    (/\ reportsLast.api = "failed"
     /\ ~localRecords.present
     /\ reportsPending = {})
        => Truthy(reportsError)

-----------------------------------------------------------------------------
(* Properties of both components *)

\* a step that is a trigger of StudentAbsenteeHours: the mount, a change of
\* the students prop, a click on Try Again
HoursTrigger == HoursMount \/ HoursStudentsChange \/ HoursTryAgain

\* a step that is a trigger of Reports: the mount, a change of the report
\* type, a click on Apply Filters
ReportsTrigger ==
    \/ ReportsMount
    \/ ReportsApplyFilters
    \/ (ReportsSelectType \/ ReportsResetFilters)
           /\ filters'.reportType # filters.reportType

\* C11: neither component retries on its own. Every trigger (mount, change of
\* the students prop, change of the report type, Try Again, Apply Filters)
\* issues exactly one API request, and no other step issues a request: the
\* completion of a request, failed or not, issues none.
C11_NoAutomaticRetry ==
    [][/\ HoursTrigger =>
              /\ hoursRequests' = hoursRequests + 1
              /\ hoursPending \subseteq hoursPending'
              /\ Cardinality(hoursPending' \ hoursPending) = 1
       /\ ~HoursTrigger =>
              /\ hoursRequests' = hoursRequests
              /\ hoursPending' \subseteq hoursPending
       /\ ReportsTrigger =>
              /\ reportsRequests' = reportsRequests + 1
              /\ reportsPending \subseteq reportsPending'
              /\ Cardinality(reportsPending' \ reportsPending) = 1
       /\ ~ReportsTrigger =>
              /\ reportsRequests' = reportsRequests
              /\ reportsPending' \subseteq reportsPending]_vars

\* a request of the mount failed, and it is the only request issued
C11_Witness ==
    /\ hoursLast.outcome = "failed"
    /\ hoursPending = {}
    /\ hoursRequests = 1

-----------------------------------------------------------------------------
(* Properties of Reports *)

\* C12: the data a successful load caches is the data a later load falls back
\* to. When a load whose API call succeeded with a non-empty result is
\* followed by a load under the same filters whose API call fails, the
\* displayed absentees stay the result of the successful load.
C12_FallbackIsCachedResult ==
    [][(/\ ReportsApiReject
        /\ reportsLast.api = "ok"
        /\ absentees # <<>>
        /\ reportsLast'.filters = reportsLast.filters)
           => absentees' = absentees]_vars

-----------------------------------------------------------------------------
(* Further properties of get_student_absentee_hours.php *)

\* the attendance rows marked absent whose student, session and course exist
AbsenceRows ==
    {a \in attendance :
        /\ a.is_present = 0
        /\ \E s \in studentsTable : s.id = a.student_id
        /\ \E sess \in sessionsTable :
               /\ sess.id = a.session_id
               /\ \E c \in coursesTable : c.id = sess.course_id}

\* C13: the rows of a 200 response are in one-to-one correspondence with the
\* attendance rows having is_present = 0 whose student, session and course
\* exist: each of them appears exactly once, whatever the timetable holds, and
\* no other attendance row appears.
C13_OneRowPerAbsence ==
    (requestMethod = "GET" /\ phpPc = "done" /\ responseStatus = 200) =>
        LET rows == responseBody[1].rows
        IN /\ \A a \in AbsenceRows :
                  Cardinality({i \in 1..Len(rows) : rows[i].id = a.id}) = 1
           /\ \A i \in 1..Len(rows) : \E a \in AbsenceRows : rows[i].id = a.id

\* the calendar day of a record's date in UTC and in local time
UtcDay(record, tz) == (RecordTime(record.date, tz) \div MsPerDay) + 1
LocalDay(record, tz) ==
    ((RecordTime(record.date, tz) + tz * MsPerHour) \div MsPerDay) + 1

\* the record passes the field and level filters that are set
PassesFieldAndLevel(record, f) ==
    /\ f.fieldName # <<>> => record.fieldName = f.fieldName
    /\ f.level # <<>> => record.level = f.level

\* the record's day lies in dateFrom..dateTo, in UTC as well as in local time
DayInRange(record, f, tz) ==
    /\ UtcDay(record, tz) \in f.dateFrom..f.dateTo
    /\ LocalDay(record, tz) \in f.dateFrom..f.dateTo

\* the record's day lies outside dateFrom..dateTo, in UTC as well as in local
\* time
DayOutOfRange(record, f, tz) ==
    /\ UtcDay(record, tz) \notin f.dateFrom..f.dateTo
    /\ LocalDay(record, tz) \notin f.dateFrom..f.dateTo

ElementsOf(records) == {records[i] : i \in 1..Len(records)}

\* C14: after a load completed without error, absentees holds, in their
\* original order, the records of the source data (the API response, or the
\* fallback records when the API failed) that pass the field and level
\* filters that are set and are dated from the start of dateFrom to the end
\* of dateTo: a record dated at any time of a day of that range is kept, a
\* record of a day outside the range is not. The day is required to lie in
\* the range (or outside it) both as a UTC day and as a local day.
C14_FilteredAbsentees ==
    reportsLast.api \in {"ok", "failed"} =>
        LET source == reportsLast.source
            f == reportsLast.filters
            Shown(record) == record \in ElementsOf(absentees)
        IN /\ absentees = SelectSeq(source, Shown)
           /\ \A record \in ElementsOf(source) :
                  /\ (PassesFieldAndLevel(record, f) /\ DayInRange(record, f, timezone))
                         => Shown(record)
                  /\ (~PassesFieldAndLevel(record, f) \/ DayOutOfRange(record, f, timezone))
                         => ~Shown(record)

\* C15: getGroupedAbsentees partitions the absentees list by fieldName: every
\* group holds, in order, exactly the records of the list with the group's
\* fieldName (so every record is in exactly one group), the fieldNames of the
\* groups differ, no group is empty, each count is the number of records of
\* the group, and the counts sum to absentees.length.
C15_GroupsPartition ==
    groupsPc # "called" /\ groupsPc # "idle" =>
        /\ groupsPc = "returned"
        /\ LET groups == groupedAbsentees
               Count(g) == groups[g].count
               SumCounts[g \in 0..Len(groups)] ==
                   IF g = 0 THEN 0 ELSE SumCounts[g - 1] + Count(g)
           IN /\ \A g \in 1..Len(groups) :
                     LET OfGroup(record) == record.fieldName = groups[g].fieldName
                     IN /\ groups[g].records = SelectSeq(exportAbsentees, OfGroup)
                        /\ groups[g].records # <<>>
                        /\ groups[g].count = Len(groups[g].records)
              /\ \A g, h \in 1..Len(groups) :
                     groups[g].fieldName = groups[h].fieldName => g = h
              /\ \A i \in 1..Len(exportAbsentees) :
                     \E g \in 1..Len(groups) :
                         groups[g].fieldName = exportAbsentees[i].fieldName
              /\ SumCounts[Len(groups)] = Len(exportAbsentees)

-----------------------------------------------------------------------------
(* Further properties of StudentAbsenteeHours *)

\* a step in which a call of loadAbsenteeHours completes
HoursLoadCompletes ==
    /\ hoursPending' # hoursPending
    /\ hoursPending' \subseteq hoursPending

\* C16: the entry 'rollcall_cached_absentee_hours' changes only when a load
\* whose API call succeeded completes; such a load leaves in it exactly the
\* per-student data it put in absenteeHours; a load whose API call failed
\* leaves the entry as it was.
C16_CacheWrittenOnSuccess ==
    [][/\ hoursCache' # hoursCache =>
              HoursLoadCompletes /\ hoursLast'.outcome = "ok"
       /\ (HoursLoadCompletes /\ hoursLast'.outcome = "ok") =>
              /\ hoursCache'.present
              /\ hoursCache'.value = absenteeHours'
              /\ absenteeHours' = HoursData(hoursLast'.students, hoursLast'.data)
       /\ (HoursLoadCompletes /\ hoursLast'.outcome = "failed") =>
              hoursCache' = hoursCache]_vars

\* the second load failed and the entry holds the rows of two students, which
\* the first load wrote
C16_Witness ==
    /\ hoursLast.id = 2
    /\ hoursLast.outcome = "failed"
    /\ hoursCache.present
    /\ Len(hoursCache.value) = 2
    /\ \E i \in 1..2 : hoursCache.value[i].totalAbsentHours # Num(0)

\* the calls of loadAbsenteeHours do not overlap
HoursLoadsApart == Cardinality(hoursPending) <= 1

\* C17: in a run whose loads do not overlap, once a load has completed
\* loading is false and error is non-null exactly when the API call of that
\* load failed; after a load that succeeded the table shows the data computed
\* by that load, also when the load before it had failed.
C17_ErrorIffLastLoadFailed ==
    []HoursLoadsApart =>
        []((hoursPending = {} /\ hoursLast.outcome # "none") =>
              /\ ~hoursLoading
              /\ Truthy(hoursError) <=> hoursLast.outcome = "failed"
              /\ hoursLast.outcome = "ok" =>
                     /\ HoursView = "table"
                     /\ absenteeHours = HoursData(hoursLast.students, hoursLast.data))

\* the first load failed and the second, started after it, succeeded: the
\* error is cleared and the table shows the rows of the second load
C17_Witness ==
    /\ hoursLast.id = 2
    /\ hoursLast.outcome = "ok"
    /\ hoursLast.previous = "failed"
    /\ hoursLast.data # <<>>
    /\ hoursPending = {}
    /\ hoursError = Null
    /\ HoursView = "table"

-----------------------------------------------------------------------------
(* Further properties of Reports *)

\* a step in which a call of loadAbsenteeReport completes
ReportLoadCompletes ==
    /\ reportsPending' # reportsPending
    /\ reportsPending' \subseteq reportsPending

\* C18: once all overlapping loads have completed, absentees is the result
\* of the load started last, whatever the order of the responses. So when
\* absentees is the result of the load started last and the last load still
\* in flight, started earlier, completes, absentees stays as it is.
C18_LatestLoadWins ==
    [][(/\ ReportLoadCompletes
        /\ reportsPending' = {}
        /\ reportsLast.id = reportsRequests)
           => absentees' = absentees]_vars

\* C19: loading is true in every state in which a call of loadAbsenteeReport
\* is in flight, also when calls overlap; it is false only when none is.
C19_LoadingWhilePending ==
    reportsPending # {} => reportsLoading

-----------------------------------------------------------------------------
(* Properties of the aggregation of loadAbsenteeHours *)

\* the students have pairwise distinct ids and pairwise distinct matricules
DistinctStudents(students) ==
    \A i, j \in 1..Len(students) :
        i # j => /\ students[i].id # students[j].id
                 /\ students[i].matricule # students[j].matricule

\* the rows of the students a record is counted for
CountedFor(record, students) ==
    {i \in 1..Len(students) :
        \/ record.studentId = students[i].id
        \/ record.matricule = students[i].matricule}

\* the number of sessions of the first n rows
RECURSIVE SessionsUpTo(_, _)
SessionsUpTo(rows, n) ==
    IF n = 0 THEN 0 ELSE SessionsUpTo(rows, n - 1) + Len(rows[n].absentSessions)

\* the sum of totalAbsentHours of the first n rows
RECURSIVE TotalsUpTo(_, _)
TotalsUpTo(rows, n) ==
    IF n = 0 THEN Num(0)
    ELSE NumAdd(TotalsUpTo(rows, n - 1), rows[n].totalAbsentHours)

\* the sum of the durations of the first n records
RECURSIVE DurationsUpTo(_, _)
DurationsUpTo(data, n) ==
    IF n = 0 THEN Num(0)
    ELSE NumAdd(DurationsUpTo(data, n - 1), sessionDurations[data[n].timeSlot])

\* a > b of two numbers (false when one of them is NaN)
Exceeds(a, b) == ~a.nan /\ ~b.nan /\ a.v > b.v

\* C20: for students with pairwise distinct ids and pairwise distinct
\* matricules, every fetched record is counted toward the total of at most one
\* student: the rows hold no more sessions than there are records, and the
\* sum of the totals does not exceed the sum of the durations of the records.
C20_RecordCountedOnce ==
    (hoursLast.outcome = "ok" /\ DistinctStudents(hoursLast.students)) =>
        LET rows == absenteeHours
            data == hoursLast.data
        IN /\ \A k \in 1..Len(data) :
                  Cardinality(CountedFor(data[k], hoursLast.students)) <= 1
           /\ SessionsUpTo(rows, Len(rows)) <= Len(data)
           /\ ~Exceeds(TotalsUpTo(rows, Len(rows)), DurationsUpTo(data, Len(data)))

=============================================================================
